---- MODULE Spec2Model ----
(***************************************************************************)
(* Model of BytePacketBuffer (src/src/byte_packet_buffer.rs): a cursor     *)
(* over a fixed 512-byte buffer and the compressed-name decoder            *)
(* read_qname built on it.                                                 *)
(*                                                                         *)
(* Representation.                                                         *)
(*  - buf is the [u8; 512] array.  new() zero-fills it and the caller      *)
(*    populates it, so it is kept as a function from the populated offsets *)
(*    to their bytes; every other offset holds 0.                          *)
(*  - usize has the width of the target.  The model takes the narrowest    *)
(*    width Rust targets have (16 bits); usize additions that exceed it    *)
(*    either panic (overflow checks on) or wrap (overflow checks off).     *)
(*  - a u32 is kept as the pair <<high 16 bits, low 16 bits>>.             *)
(*  - a String is the sequence of its Unicode scalar values.               *)
(***************************************************************************)
EXTENDS Integers, Sequences, FiniteSets, TLC

VARIABLES buf, pos, pc, q, last, nops

vars == <<buf, pos, pc, q, last, nops>>

\* longest sequence of operations applied to one buffer
MaxOps == 3

Capacity == 512
USIZE_MAX == 65535
XFFFD == 65533

(***************************************************************************)
(* Machine arithmetic                                                      *)
(***************************************************************************)
RECURSIVE BitAnd(_, _)
BitAnd(a, b) ==
    IF a = 0 \/ b = 0 THEN 0
    ELSE (a % 2) * (b % 2) + 2 * BitAnd(a \div 2, b \div 2)

RECURSIVE BitOr(_, _)
BitOr(a, b) ==
    IF a = 0 THEN b
    ELSE IF b = 0 THEN a
    ELSE (IF a % 2 = 1 \/ b % 2 = 1 THEN 1 ELSE 0) + 2 * BitOr(a \div 2, b \div 2)

\* x << n on a u16: the bits shifted past bit 15 are dropped
Shl16(x, n) == (x * (2 ^ n)) % 65536

\* (b as u32) << n for a byte b and n in {0, 8, 16, 24}, as <<high, low>>
Shl32(b, n) ==
    IF n >= 16 THEN <<Shl16(b, n - 16), 0>> ELSE <<0, Shl16(b, n)>>

Or32(x, y) == <<BitOr(x[1], y[1]), BitOr(x[2], y[2])>>

\* a + b on usize: the sum, and whether it passed usize::MAX
Overflows(a, b) == a + b > USIZE_MAX
WrappingAdd(a, b) == (a + b) % (USIZE_MAX + 1)

(***************************************************************************)
(* The buffer                                                              *)
(***************************************************************************)
\* self.buf[i] for an index the bounds check of the array accepts
ByteAt(b, i) == IF i \in DOMAIN b THEN b[i] ELSE 0

\* the array's own bounds check: indexing outside 0..511 panics
InBounds(i) == i >= 0 /\ i < Capacity

\* &self.buf[s..e]
Slice(b, s, e) == [k \in 1..(e - s) |-> ByteAt(b, s + k - 1)]

(***************************************************************************)
(* Results.  Every operation yields [res, val, pos]: the kind of result,   *)
(* the value returned on Ok, and self.pos afterwards.  "Panic" is the      *)
(* process aborting (a failed bounds or overflow check).                   *)
(***************************************************************************)
NoVal == <<>>

Ok(v, p) == [res |-> "Ok", val |-> v, pos |-> p]
Err(kind, p) == [res |-> kind, val |-> NoVal, pos |-> p]

\* fn step(&mut self, steps): self.pos += steps
step(p, steps, checks) ==
    IF Overflows(p, steps)
    THEN IF checks THEN Err("Panic", p) ELSE Ok(NoVal, WrappingAdd(p, steps))
    ELSE Ok(NoVal, p + steps)

\* fn seek(&mut self, pos): self.pos = pos
seek_Stale(p, target) == Ok(NoVal, p)

seek(p, target) == Ok(NoVal, target)

\* fn read(&mut self)
read_Gt(b, p) ==
    IF p > Capacity THEN Err("EndOfBuffer", p)
    ELSE IF ~InBounds(p) THEN Err("Panic", p)
    ELSE Ok(ByteAt(b, p), p + 1)

read(b, p) ==
    IF p >= Capacity THEN Err("EndOfBuffer", p)
    ELSE IF ~InBounds(p) THEN Err("Panic", p)
    ELSE Ok(ByteAt(b, p), p + 1)

\* fn get(&mut self, pos)
get_Gt(b, p, at) ==
    IF at > Capacity THEN Err("EndOfBuffer", p)
    ELSE IF ~InBounds(at) THEN Err("Panic", p)
    ELSE Ok(ByteAt(b, at), p)

get(b, p, at) ==
    IF at >= Capacity THEN Err("EndOfBuffer", p)
    ELSE IF ~InBounds(at) THEN Err("Panic", p)
    ELSE Ok(ByteAt(b, at), p)

\* fn get_range(&mut self, start, len)
get_range(b, p, start, len, checks) ==
    IF Overflows(start, len) /\ checks THEN Err("Panic", p)
    ELSE LET end == WrappingAdd(start, len) IN
         IF end >= Capacity THEN Err("EndOfBuffer", p)
         ELSE IF start > end \/ end > Capacity THEN Err("Panic", p)
         ELSE Ok(Slice(b, start, end), p)

\* fn read_u16(&mut self): the operands are evaluated left to right and `?`
\* returns at the first failing read
read_u16_LE(b, p) ==
    LET r1 == read(b, p) IN
    IF r1.res # "Ok" THEN Err(r1.res, r1.pos)
    ELSE LET r2 == read(b, r1.pos) IN
         IF r2.res # "Ok" THEN Err(r2.res, r2.pos)
         ELSE Ok(BitOr(Shl16(r2.val, 8), r1.val), r2.pos)

read_u16(b, p) ==
    LET r1 == read(b, p) IN
    IF r1.res # "Ok" THEN Err(r1.res, r1.pos)
    ELSE LET r2 == read(b, r1.pos) IN
         IF r2.res # "Ok" THEN Err(r2.res, r2.pos)
         ELSE Ok(BitOr(Shl16(r1.val, 8), r2.val), r2.pos)

\* fn read_u32(&mut self)
read_u32_Rollback(b, p) ==
    LET r1 == read(b, p) IN
    IF r1.res # "Ok" THEN Err(r1.res, p)
    ELSE LET r2 == read(b, r1.pos) IN
    IF r2.res # "Ok" THEN Err(r2.res, p)
    ELSE LET r3 == read(b, r2.pos) IN
    IF r3.res # "Ok" THEN Err(r3.res, p)
    ELSE LET r4 == read(b, r3.pos) IN
    IF r4.res # "Ok" THEN Err(r4.res, p)
    ELSE Ok(Or32(Or32(Or32(Shl32(r1.val, 24), Shl32(r2.val, 16)),
                      Shl32(r3.val, 8)),
                 Shl32(r4.val, 0)),
            r4.pos)

read_u32(b, p) ==
    LET r1 == read(b, p) IN
    IF r1.res # "Ok" THEN Err(r1.res, r1.pos)
    ELSE LET r2 == read(b, r1.pos) IN
    IF r2.res # "Ok" THEN Err(r2.res, r2.pos)
    ELSE LET r3 == read(b, r2.pos) IN
    IF r3.res # "Ok" THEN Err(r3.res, r3.pos)
    ELSE LET r4 == read(b, r3.pos) IN
    IF r4.res # "Ok" THEN Err(r4.res, r4.pos)
    ELSE Ok(Or32(Or32(Or32(Shl32(r1.val, 24), Shl32(r2.val, 16)),
                      Shl32(r3.val, 8)),
                 Shl32(r4.val, 0)),
            r4.pos)

(***************************************************************************)
(* BytePacketBufferError                                                   *)
(***************************************************************************)
\* the enum's variants, by discriminant
Discriminant(kind) == IF kind = "EndOfBuffer" THEN 0 ELSE 1

\* impl Error for BytePacketBufferError {}: source() is the trait's default,
\* None for every value.  An Option is a sequence of at most one element.
source(e) == <<>>

\* "{:?}" of an Option<&dyn Error>: the text None, or Some(..)
DebugOption(o) ==
    IF o = <<>> THEN <<78, 111, 110, 101>>
    ELSE <<83, 111, 109, 101, 40>> \o o \o <<41>>

\* impl Display: write!(f, "{:?}", self.source())
fmt(e, p) == Ok(DebugOption(source(e)), p)

(***************************************************************************)
(* read_qname                                                              *)
(***************************************************************************)
MaxJumps == 5

\* (len & 0xC0) == 0xC0
IsPointer(len) == BitAnd(len, 192) = 192

\* let offset = (((len as u16) * 0xC0) << 8) | b2;  pos = offset as usize
Offset(len, b2) == BitOr(Shl16(len * 192, 8), b2)

\* String::from_utf8_lossy on a byte range: an ASCII byte is its own scalar
\* value; a byte that starts no valid UTF-8 sequence becomes U+FFFD.  (The
\* buffers below hold no valid multi-byte sequence, so every byte >= 0x80
\* is of the second kind.)
from_utf8_lossy(bytes) ==
    [k \in 1..Len(bytes) |-> IF bytes[k] < 128 THEN bytes[k] ELSE XFFFD]

\* str::to_lowercase on the scalar values above: 'A'..'Z' -> 'a'..'z'
to_lowercase_Id(str) == str

to_lowercase(str) ==
    [k \in 1..Len(str) |-> IF str[k] >= 65 /\ str[k] <= 90 THEN str[k] + 32
                           ELSE str[k]]

\* jumps += 1
Bump_Stuck(jumps) == jumps

Bump(jumps) == jumps + 1

\* if jumps > max_jumps
JumpLimitHit_Late(jumps) == jumps > MaxJumps + 1

JumpLimitHit(jumps) == jumps > MaxJumps

\* the locals of read_qname at the top of the loop
QStart(p, outstr) ==
    [pos |-> p, jumped |-> FALSE, jumps |-> 0, delim |-> <<>>, outstr |-> outstr]

\* one pass through the body of `loop`: the locals and self.pos afterwards,
\* and st = "loop" (next pass), "break", or the error returned.  (pos is at
\* most 511 past the get at line 111 and len at most 191, so pos + 2, pos + 1
\* and pos + len never pass usize::MAX, with or without overflow checks.)
LoopBody(b, sp, l) ==
    IF JumpLimitHit(l.jumps) THEN [st |-> "JumpLimitExceeded", l |-> l, pos |-> sp]
    ELSE
    LET g == get(b, sp, l.pos) IN
    IF g.res # "Ok" THEN [st |-> g.res, l |-> l, pos |-> sp]
    ELSE
    LET len == g.val IN
    IF IsPointer(len)
    THEN LET sp1 == IF ~l.jumped THEN seek(sp, l.pos + 2).pos ELSE sp
             g2  == get(b, sp1, l.pos + 1)
         IN  IF g2.res # "Ok" THEN [st |-> g2.res, l |-> l, pos |-> sp1]
             ELSE [st  |-> "loop",
                   l   |-> [l EXCEPT !.pos = Offset(len, g2.val),
                                     !.jumped = TRUE,
                                     !.jumps = Bump(l.jumps)],
                   pos |-> sp1]
    ELSE LET p1 == l.pos + 1 IN
         IF len = 0 THEN [st |-> "break", l |-> [l EXCEPT !.pos = p1], pos |-> sp]
         ELSE
         LET out1 == l.outstr \o l.delim
             r    == get_range(b, sp, p1, len, TRUE)
         IN  IF r.res # "Ok"
             THEN [st |-> r.res, l |-> [l EXCEPT !.pos = p1, !.outstr = out1],
                   pos |-> sp]
             ELSE [st  |-> "loop",
                   l   |-> [l EXCEPT !.pos = p1 + len,
                                     !.outstr = out1 \o to_lowercase(from_utf8_lossy(r.val)),
                                     !.delim = <<46>>],
                   pos |-> sp]

\* after the loop: if !jumped { self.seek(pos) }
AfterLoop_Always(sp, l) == seek(sp, l.pos).pos

AfterLoop(sp, l) == IF ~l.jumped THEN seek(sp, l.pos).pos ELSE sp

\* the whole call as a function of the buffer and the position it starts at:
\* [res, val (outstr), pos, jumps]
RECURSIVE RunLoop(_, _, _)
RunLoop(b, sp, l) ==
    LET n == LoopBody(b, sp, l) IN
    IF n.st = "loop" THEN RunLoop(b, n.pos, n.l)
    ELSE IF n.st = "break"
         THEN [res |-> "Ok", val |-> n.l.outstr, pos |-> AfterLoop(n.pos, n.l),
               jumps |-> n.l.jumps]
         ELSE [res |-> n.st, val |-> n.l.outstr, pos |-> n.pos, jumps |-> n.l.jumps]

read_qname(b, p, outstr) == RunLoop(b, p, QStart(p, outstr))

(***************************************************************************)
(* Buffer contents the caller may have loaded                              *)
(***************************************************************************)
Bytes(off, bytes) == [i \in off..(off + Len(bytes) - 1) |-> bytes[i - off + 1]]

\* names, and names that end in a pointer
\*    0: 3 "www" 6 "google" 3 "com" 0
\*   16: pointer to 0
\*   18: 3 "WWW", then pointer to 4
\*   24: 0 (the root name)
\*   30: 2 "a.", 1 "B", 0
\*  256: 1 "a" 0
\*  260: pointer to 256 (0xC1 0x00)
\*  262: pointer to 16, itself a pointer
\*  264: 1 "m", then pointer to 256
\*  507: 3 "abc" 0, ending with the buffer
BufNames ==
    Bytes(0, <<3, 119, 119, 119, 6, 103, 111, 111, 103, 108, 101, 3, 99, 111, 109, 0>>)
    @@ Bytes(16, <<192, 0>>)
    @@ Bytes(18, <<3, 87, 87, 87, 192, 4>>)
    @@ Bytes(30, <<2, 97, 46, 1, 66, 0>>)
    @@ Bytes(256, <<1, 97, 0>>)
    @@ Bytes(260, <<193, 0>>)
    @@ Bytes(262, <<192, 16>>)
    @@ Bytes(264, <<1, 109, 193, 0>>)
    @@ Bytes(507, <<3, 97, 98, 99, 0>>)

\* pointer cycles and chains
\*    0 <-> 2 : a cycle;  4: a pointer to itself;  6: a forward pointer to 22
\*   10 -> 12 -> 14 -> 16 -> 18 -> 20 -> 22: 1 "x" 0
\*   30 <-> 300: a cycle through the upper half of the buffer
\*  302 <-> 304: a cycle inside the upper half
\*  510: a pointer to 0 in the last two bytes
BufChains ==
    Bytes(0, <<192, 2, 192, 0, 192, 4, 192, 22>>)
    @@ Bytes(10, <<192, 12, 192, 14, 192, 16, 192, 18, 192, 20, 192, 22, 1, 120, 0>>)
    @@ Bytes(30, <<193, 44>>)
    @@ Bytes(300, <<192, 30, 193, 48, 193, 46>>)
    @@ Bytes(510, <<192, 0>>)

\* scalars, pointer bytes of every low-bit pattern, and names cut off by the
\* end of the buffer
\*    0: 01 02 FF FF 00 00 01 00 FF FF FF FF 80 00 00 01
\*   16: 1 "k" 0
\*   20: C4 10, C3 05, FF FF, C2 01, C8 10
\*  505: 5 "abcde", then a pointer byte in the last byte
BufScalars ==
    Bytes(0, <<1, 2, 255, 255, 0, 0, 1, 0, 255, 255, 255, 255, 128, 0, 0, 1>>)
    @@ Bytes(16, <<1, 107, 0>>)
    @@ Bytes(20, <<196, 16, 195, 5, 255, 255, 194, 1, 200, 16>>)
    @@ Bytes(505, <<5, 97, 98, 99, 100, 101, 192>>)

\* a label that runs exactly to the end of the buffer, and one that runs past
\*  500: 3 "abc", then pointer to 0 (a terminator)
\*  508: 3 "xyz"
\*  509 read as a length byte: 120 bytes from 510
BufTail ==
    Bytes(500, <<3, 97, 98, 99, 192, 0, 0, 0, 3, 120, 121, 122>>)
    @@ Bytes(256, <<18, 52>>)

\* the buffer as new() leaves it
BufZero == Bytes(0, <<0>>)

Buffers == {BufNames, BufChains, BufScalars, BufTail, BufZero}

\* arguments the caller passes
SeekArgs ==
    {0, 2, 4, 6, 8, 10, 12, 14, 16, 18, 20, 22, 24, 26, 28, 30,
     256, 260, 262, 264, 300, 302, 500, 505, 507, 508, 509, 510, 511, 512, 513,
     USIZE_MAX - 1, USIZE_MAX}
StepArgs == {0, 1, 2, USIZE_MAX}
GetArgs == {0, 255, 511, 512, USIZE_MAX}
RangeStarts == {0, 508, 511, 512, USIZE_MAX}
RangeLens == {0, 2, 4, 512, USIZE_MAX}
Outstrs == {<<>>, <<35>>}

(***************************************************************************)
(* The state machine                                                       *)
(***************************************************************************)
\* q outside read_qname, and once the caller has moved on from its return
NoLocals == QStart(0, <<>>)

Idle == pc = "idle" /\ nops < MaxOps /\ last.res # "Panic"

Call(op, args) ==
    [op |-> op, pre |-> pos, args |-> args, res |-> "running", val |-> NoVal]

\* the call `op(args)` returns r
Return(op, args, r) ==
    /\ last' = [Call(op, args) EXCEPT !.res = r.res, !.val = r.val]
    /\ pos' = r.pos
    /\ nops' = nops + 1
    /\ q' = NoLocals
    /\ UNCHANGED <<buf, pc>>

\* the same for an integer result, recorded as a sequence of one element so
\* that results of all operations compare
ReturnScalar(op, args, r) ==
    Return(op, args, [r EXCEPT !.val = IF r.res = "Ok" THEN <<r.val>> ELSE NoVal])

\* BytePacketBuffer::new(), then the caller fills buf
Init ==
    /\ buf \in Buffers
    /\ pos = 0
    /\ pc = "idle"
    /\ q = NoLocals
    /\ last = [op |-> "new", pre |-> 0, args |-> <<>>, res |-> "Ok", val |-> NoVal]
    /\ nops = 0

Step ==
    /\ Idle
    /\ \E n \in StepArgs, checks \in BOOLEAN :
          Return("step", <<n>>, step(pos, n, checks))

Seek ==
    /\ Idle
    /\ \E t \in SeekArgs : Return("seek", <<t>>, seek(pos, t))

Read ==
    /\ Idle
    /\ ReturnScalar("read", <<>>, read(buf, pos))

Get ==
    /\ Idle
    /\ \E at \in GetArgs : ReturnScalar("get", <<at>>, get(buf, pos, at))

GetRange ==
    /\ Idle
    /\ \E start \in RangeStarts, len \in RangeLens, checks \in BOOLEAN :
          Return("get_range", <<start, len>>, get_range(buf, pos, start, len, checks))

ReadU16 ==
    /\ Idle
    /\ ReturnScalar("read_u16", <<>>, read_u16(buf, pos))

ReadU32 ==
    /\ Idle
    /\ Return("read_u32", <<>>, read_u32(buf, pos))

\* the caller renders the error it was just handed
Display ==
    /\ Idle
    /\ last.res \in {"EndOfBuffer", "JumpLimitExceeded"}
    /\ Return("fmt", <<Discriminant(last.res)>>, fmt(Discriminant(last.res), pos))

\* read_qname is entered: its locals are set up (lines 96-105)
ReadQnameCall ==
    /\ Idle
    /\ \E o \in Outstrs :
          /\ q' = QStart(pos, o)
          /\ last' = Call("read_qname", o)
    /\ pc' = "read_qname"
    /\ nops' = nops + 1
    /\ UNCHANGED <<buf, pos>>

\* one pass of the loop; the pass that breaks or fails also returns
ReadQnameLoop ==
    /\ pc = "read_qname"
    /\ LET n == LoopBody(buf, pos, q) IN
          /\ q' = n.l
          /\ IF n.st = "loop"
             THEN /\ pos' = n.pos
                  /\ UNCHANGED <<pc, last>>
             ELSE /\ pc' = "idle"
                  /\ pos' = IF n.st = "break" THEN AfterLoop(n.pos, n.l) ELSE n.pos
                  /\ last' = [last EXCEPT
                                 !.res = IF n.st = "break" THEN "Ok" ELSE n.st,
                                 !.val = n.l.outstr]
    /\ UNCHANGED <<buf, nops>>

Next ==
    \/ Step
    \/ Seek
    \/ Read
    \/ Get
    \/ GetRange
    \/ ReadU16
    \/ ReadU32
    \/ Display
    \/ ReadQnameCall
    \/ ReadQnameLoop

Spec == Init /\ [][Next]_vars

\* read_qname is straight-line code on one thread: once entered it keeps
\* executing
FairSpec == Spec /\ WF_vars(ReadQnameLoop)

(***************************************************************************)
(* The wire format, read off the buffer independently of the decoder       *)
(***************************************************************************)
\* most pointers followed when a name is read off the buffer
WireFuel == 8

\* a length byte with both top bits set
TopBitsSet(len) == len \div 64 = 3

\* the 14-bit offset a pointer at p denotes: low 6 bits of the first byte,
\* then the second byte
WireTarget(b, p) == (ByteAt(b, p) % 64) * 256 + ByteAt(b, p + 1)

\* where the encoding that starts at p ends as it lies in the buffer: past
\* the zero terminator, or past the first pointer; -1 if it leaves the buffer
RECURSIVE LiteralEnd(_, _)
LiteralEnd(b, p) ==
    IF p >= Capacity THEN -1
    ELSE IF TopBitsSet(ByteAt(b, p)) THEN p + 2
    ELSE IF ByteAt(b, p) = 0 THEN p + 1
    ELSE LiteralEnd(b, p + 1 + ByteAt(b, p))

NoName == [ok |-> FALSE, labels |-> <<>>, ptrs |-> 0]

Wire14(len, b2) == (len % 64) * 256 + b2

\* the name that starts at p, with a pointer denoting the 14-bit offset of the
\* wire format (wire) or the offset the decoder computes (~wire): whether it
\* lies inside the buffer and ends in a terminator, its labels, and the number
\* of pointers on the way
RECURSIVE NameAt(_, _, _, _)
NameAt(b, p, fuel, wire) ==
    IF p >= Capacity \/ fuel = 0 THEN NoName
    ELSE LET len == ByteAt(b, p) IN
         IF TopBitsSet(len)
         THEN IF p + 1 >= Capacity THEN NoName
              ELSE LET t == IF wire THEN Wire14(len, ByteAt(b, p + 1))
                                    ELSE Offset(len, ByteAt(b, p + 1))
                       r == NameAt(b, t, fuel - 1, wire)
                   IN  [r EXCEPT !.ptrs = IF r.ok THEN r.ptrs + 1 ELSE 0]
         ELSE IF len = 0 THEN [ok |-> TRUE, labels |-> <<>>, ptrs |-> 0]
         ELSE IF p + len >= Capacity THEN NoName
         ELSE LET r == NameAt(b, p + 1 + len, fuel, wire)
              IN  IF r.ok
                  THEN [r EXCEPT !.labels = <<Slice(b, p + 1, p + 1 + len)>> \o r.labels]
                  ELSE NoName

\* the name at p as the wire format defines it
WireName(b, p) == NameAt(b, p, WireFuel, TRUE)

\* the name at p along the offsets the decoder computes
DecodedName(b, p) == NameAt(b, p, WireFuel, FALSE)

AsciiLower(c) == IF c \in 65..90 THEN c + 32 ELSE c

IsAscii(labels) == \A i \in 1..Len(labels) : \A k \in 1..Len(labels[i]) : labels[i][k] < 128

\* lower(L1) . lower(L2) . ... . lower(Ln)
RECURSIVE Dotted(_)
Dotted(labels) ==
    IF Len(labels) = 0 THEN <<>>
    ELSE LET head == [k \in 1..Len(labels[1]) |-> AsciiLower(labels[1][k])] IN
         IF Len(labels) = 1 THEN head
         ELSE head \o <<46>> \o Dotted(Tail(labels))

Returned(op) == pc = "idle" /\ last.op = op

(***************************************************************************)
(* Claims                                                                  *)
(***************************************************************************)
\* C1: when read_qname returns Ok the cursor is right after the name's
\* encoding as it lies at the start position: past the zero terminator when
\* no pointer was met, past the first pointer (its offset + 2) otherwise; and
\* from the first jump on the cursor stays there for the rest of the call.
C1_CursorAfterLiteralEncoding ==
    /\ (Returned("read_qname") /\ last.res = "Ok")
          => pos = LiteralEnd(buf, last.pre)
    /\ (last.op = "read_qname" /\ q.jumped)
          => pos = LiteralEnd(buf, last.pre)

C1_Witness ==
    /\ Returned("read_qname") /\ last.res = "Ok"
    /\ q.jumps = 2 /\ last.pre = 262 /\ pos = 264

\* C2: a length byte with both top bits set sends the decoder to the 14-bit
\* offset ((len & 0x3F) << 8) | next_byte.
C2_PointerIs14BitOffset ==
    [][(/\ pc = "read_qname"
        /\ q.jumps <= MaxJumps
        /\ q.pos + 1 < Capacity
        /\ TopBitsSet(ByteAt(buf, q.pos)))
          => q'.pos = WireTarget(buf, q.pos)]_vars

\* C3: a name that is just a pointer at p to an uncompressed name at t
\* decodes to the text that decoding at t gives.
C3_PointerOnlyNameDecodesAsTarget ==
    (/\ Returned("read_qname")
     /\ last.pre + 1 < Capacity
     /\ TopBitsSet(ByteAt(buf, last.pre))
     /\ WireTarget(buf, last.pre) < Capacity
     /\ WireName(buf, WireTarget(buf, last.pre)).ok
     /\ WireName(buf, WireTarget(buf, last.pre)).ptrs = 0)
       => LET direct == read_qname(buf, WireTarget(buf, last.pre), last.args)
          IN  last.res = direct.res /\ last.val = direct.val

\* C4: when read_qname returns Ok on a name with ASCII labels L1..Ln, the text
\* appended is lower(L1).lower(L2). ... .lower(Ln): one '.' between labels,
\* none before the first or after the last, with or without pointers.
C4_TextIsLowercasedDottedLabels ==
    (Returned("read_qname") /\ last.res = "Ok")
       => /\ DecodedName(buf, last.pre).ok
          /\ IsAscii(DecodedName(buf, last.pre).labels)
                => last.val = last.args \o Dotted(DecodedName(buf, last.pre).labels)
          /\ (WireName(buf, last.pre).ok /\ IsAscii(WireName(buf, last.pre).labels))
                => last.val = last.args \o Dotted(WireName(buf, last.pre).labels)

C4_Witness ==
    /\ Returned("read_qname") /\ last.res = "Ok"
    /\ last.pre = 18 /\ last.args = <<>>
    /\ last.val = <<119, 119, 119, 46, 103, 111, 111, 103, 108, 101, 46, 99, 111, 109>>
    /\ pos = 24

\* C5: if X holds a pointer to Y and Y a pointer back to X, read_qname started
\* at X fails with JumpLimitExceeded after following exactly max_jumps + 1
\* pointers.
C5_CycleHitsJumpLimit ==
    (/\ Returned("read_qname")
     /\ last.pre + 1 < Capacity
     /\ TopBitsSet(ByteAt(buf, last.pre))
     /\ WireTarget(buf, last.pre) + 1 < Capacity
     /\ TopBitsSet(ByteAt(buf, WireTarget(buf, last.pre)))
     /\ WireTarget(buf, WireTarget(buf, last.pre)) = last.pre)
       => last.res = "JumpLimitExceeded" /\ q.jumps = MaxJumps + 1

\* C6: a name whose path stays inside the buffer and holds k pointers before
\* the terminator decodes Ok when k <= 5 and fails with JumpLimitExceeded when
\* k > 5.
C6_JumpLimitByPointerCount ==
    (Returned("read_qname") /\ WireName(buf, last.pre).ok)
       => IF WireName(buf, last.pre).ptrs <= MaxJumps
          THEN last.res = "Ok"
          ELSE last.res = "JumpLimitExceeded"

\* C7: no sequence of calls, whatever the arguments and the buffer, aborts or
\* touches an index outside 0..511; a read that needs an offset >= 512 returns
\* EndOfBuffer.
C7_NeverAbortsNorLeavesBuffer ==
    /\ last.res # "Panic"
    /\ (Returned("read") /\ last.pre >= Capacity) => last.res = "EndOfBuffer"
    /\ (Returned("get") /\ last.args[1] >= Capacity) => last.res = "EndOfBuffer"
    /\ (Returned("get_range") /\ last.args[1] >= Capacity) => last.res = "EndOfBuffer"

\* C8: every call of read_qname returns, with Ok, EndOfBuffer or
\* JumpLimitExceeded.
C8_ReadQnameTerminates ==
    (pc = "read_qname")
       ~> (/\ Returned("read_qname")
           /\ last.res \in {"Ok", "EndOfBuffer", "JumpLimitExceeded"})

C8_Witness ==
    /\ Returned("read_qname") /\ last.res = "JumpLimitExceeded"
    /\ last.pre = 4 /\ q.pos = 4 /\ q.jumps = MaxJumps + 1

\* C9: read fails with EndOfBuffer and leaves the position alone when the
\* position is >= 512; otherwise it returns the byte at the position and moves
\* the position on by exactly 1.
C9_ReadByte ==
    Returned("read")
       => IF last.pre >= Capacity
          THEN last.res = "EndOfBuffer" /\ pos = last.pre
          ELSE last.res = "Ok" /\ last.val = <<ByteAt(buf, last.pre)>> /\ pos = last.pre + 1

C9_Witness ==
    /\ Returned("read") /\ last.pre = 511 /\ last.res = "Ok"
    /\ last.val = <<192>> /\ pos = Capacity

\* C10: read_u16 and read_u32 return the big-endian value of the next 2
\* (resp. 4) bytes and move the position on by 2 (resp. 4) when those bytes
\* are in the buffer, and fail with EndOfBuffer when one of them is at an
\* offset >= 512.
C10_BigEndianReads ==
    /\ Returned("read_u16")
          => IF last.pre + 1 < Capacity
             THEN /\ last.res = "Ok"
                  /\ last.val = <<ByteAt(buf, last.pre) * 256 + ByteAt(buf, last.pre + 1)>>
                  /\ pos = last.pre + 2
             ELSE last.res = "EndOfBuffer"
    /\ Returned("read_u32")
          => IF last.pre + 3 < Capacity
             THEN /\ last.res = "Ok"
                  /\ last.val =
                       <<ByteAt(buf, last.pre) * 256 + ByteAt(buf, last.pre + 1),
                         ByteAt(buf, last.pre + 2) * 256 + ByteAt(buf, last.pre + 3)>>
                  /\ pos = last.pre + 4
             ELSE last.res = "EndOfBuffer"

C10_Witness ==
    /\ Returned("read_u16") /\ last.pre = 0 /\ last.res = "Ok"
    /\ last.val = <<258>> /\ pos = 2
    /\ buf = BufScalars

\* the offsets an access needs: those of read, get, get_range, read_u16 and
\* read_u32 as called in the state just returned to
Required ==
    IF last.op = "read" THEN {last.pre}
    ELSE IF last.op = "get" THEN {last.args[1]}
    ELSE IF last.op = "get_range"
         THEN {last.args[1] + k : k \in 0..(last.args[2] - 1)}
    ELSE IF last.op = "read_u16" THEN {last.pre, last.pre + 1}
    ELSE IF last.op = "read_u32" THEN {last.pre + k : k \in 0..3}
    ELSE {}

\* C11: get_range(start, len) returns EndOfBuffer if and only if
\* start + len >= 512, and otherwise exactly buf[start] .. buf[start+len-1];
\* either way the cursor does not move.
C11_GetRangeStrictBound ==
    Returned("get_range")
       => /\ pos = last.pre
          /\ IF last.args[1] + last.args[2] >= Capacity
             THEN last.res = "EndOfBuffer"
             ELSE /\ last.res = "Ok"
                  /\ last.val = [k \in 1..last.args[2] |->
                                    ByteAt(buf, last.args[1] + k - 1)]

\* C12: read, get, get_range, read_u16 and read_u32 return EndOfBuffer exactly
\* when an offset they need is >= 512, and succeed when every offset they need
\* is in 0..511.
C12_EndOfBufferIffOffsetBeyond ==
    (pc = "idle" /\ last.op \in {"read", "get", "get_range", "read_u16", "read_u32"})
       => IF \E o \in Required : o >= Capacity
          THEN last.res = "EndOfBuffer"
          ELSE last.res = "Ok"

\* C13: step(n) sets the position to the old position + n and seek(p) sets it
\* to p, for every n and p, without failing; at a position >= 512 the next
\* read, read_u16, read_u32 or read_qname fails with EndOfBuffer, and at a
\* position < 512 reached again by seek a read succeeds.
C13_DeferredValidation ==
    /\ Returned("step") => (last.res = "Ok" /\ pos = last.pre + last.args[1])
    /\ Returned("seek") => (last.res = "Ok" /\ pos = last.args[1])
    /\ (/\ pc = "idle"
        /\ last.op \in {"read", "read_u16", "read_u32", "read_qname"}
        /\ last.pre >= Capacity)
          => last.res = "EndOfBuffer"
    /\ (Returned("read") /\ last.pre < Capacity) => last.res = "Ok"

\* C14: EndOfBuffer and JumpLimitExceeded render to two distinct messages,
\* neither of them empty nor the text of an absent cause.
C14_DistinctErrorMessages ==
    Returned("fmt")
       => /\ last.res = "Ok"
          /\ last.val # fmt(1 - last.args[1], pos).val
          /\ last.val # <<>>
          /\ last.val # DebugOption(<<>>)

\* C15 (as stated): in every state of a read_qname call the jump counter is at
\* most the maximum 5.
C15_JumpCounterAtMostMax ==
    last.op = "read_qname" => q.jumps <= MaxJumps

\* C15 (amended): in every state of a read_qname call the jump counter is at
\* most max_jumps + 1 = 6, and it is above 5 only in a call that then returns
\* JumpLimitExceeded.
C15_JumpCounterBound ==
    last.op = "read_qname"
       => /\ q.jumps <= MaxJumps + 1
          /\ (Returned("read_qname") /\ last.res # "JumpLimitExceeded")
                => q.jumps <= MaxJumps

C15_Witness ==
    pc = "read_qname" /\ q.jumps = MaxJumps + 1

\* A decoder identical to read_qname except that its range check accepts
\* start + len == 512: a pass differs from LoopBody only on a label whose last
\* byte is the last byte of the buffer, which it appends.
LenientLoopBody(b, sp, l) ==
    LET g == get(b, sp, l.pos) IN
    IF /\ ~JumpLimitHit(l.jumps)
       /\ g.res = "Ok"
       /\ ~IsPointer(g.val)
       /\ g.val # 0
       /\ l.pos + 1 + g.val = Capacity
    THEN [st  |-> "loop",
          l   |-> [l EXCEPT !.pos = Capacity,
                            !.outstr = l.outstr \o l.delim
                                \o to_lowercase(from_utf8_lossy(Slice(b, l.pos + 1, Capacity))),
                            !.delim = <<46>>],
          pos |-> sp]
    ELSE LoopBody(b, sp, l)

RECURSIVE LenientRun(_, _, _)
LenientRun(b, sp, l) ==
    LET n == LenientLoopBody(b, sp, l) IN
    IF n.st = "loop" THEN LenientRun(b, n.pos, n.l)
    ELSE IF n.st = "break"
         THEN [res |-> "Ok", val |-> n.l.outstr, pos |-> AfterLoop(n.pos, n.l)]
         ELSE [res |-> n.st, val |-> n.l.outstr, pos |-> n.pos]

\* C16: the strict range check of get_range never changes the outcome of
\* read_qname: the result kind and the final cursor position are those of the
\* decoder whose range check accepts start + len == 512.
C16_StrictCheckSameOutcome ==
    Returned("read_qname")
       => LET ref == LenientRun(buf, last.pre, QStart(last.pre, last.args))
          IN  last.res = ref.res /\ pos = ref.pos

C16_Witness ==
    /\ Returned("read_qname") /\ buf = BufTail /\ last.pre = 508
    /\ last.res = "EndOfBuffer" /\ pos = 508
    /\ last.val # LenientRun(buf, last.pre, QStart(last.pre, last.args)).val

\* the offset of the first length byte with both top bits set in the encoding
\* as it lies at p; -1 if the terminator or the end of the buffer comes first
RECURSIVE FirstPointer(_, _)
FirstPointer(b, p) ==
    IF p >= Capacity THEN -1
    ELSE IF TopBitsSet(ByteAt(b, p)) THEN p
    ELSE IF ByteAt(b, p) = 0 THEN -1
    ELSE FirstPointer(b, p + 1 + ByteAt(b, p))

\* C17: when read_qname returns an error the cursor is where it was before the
\* call, or at the offset of the first pointer met + 2; it is where it was if
\* no length byte with both top bits set was met.
C17_CursorAfterError ==
    (Returned("read_qname") /\ last.res \in {"EndOfBuffer", "JumpLimitExceeded"})
       => IF FirstPointer(buf, last.pre) >= 0
          THEN pos = FirstPointer(buf, last.pre) + 2
          ELSE pos = last.pre

C17_Witness ==
    /\ Returned("read_qname") /\ last.res = "EndOfBuffer"
    /\ buf = BufScalars /\ last.pre = 505
    /\ FirstPointer(buf, last.pre) = 511 /\ pos = 513 /\ ~q.jumped

\* C18: a failing read_u16 or read_u32 does not roll the cursor back: the
\* position afterwards is max(starting position, 512).
C18_FailedReadKeepsAdvance ==
    (/\ pc = "idle"
     /\ last.op \in {"read_u16", "read_u32"}
     /\ last.res # "Ok")
       => /\ last.res = "EndOfBuffer"
          /\ pos = IF last.pre >= Capacity THEN last.pre ELSE Capacity

C18_Witness ==
    /\ Returned("read_u32") /\ last.res = "EndOfBuffer"
    /\ last.pre = 510 /\ pos = Capacity

\* C19: apart from seek, no call moves the cursor backward: the position after
\* a read, read_u16, read_u32, step, get, get_range or read_qname (and at
\* every point inside it) is at least the position before.
C19_CursorNeverMovesBackward ==
    [][last'.op # "seek" => pos' >= pos]_vars

====
